---- MODULE Spec2Model ----
(***************************************************************************)
(* Model of the 395-GK interest calculator.                                *)
(*                                                                         *)
(*   src/rates_loader.py  RatesProvider: a cached key-rate schedule with a *)
(*                        time-based refresh, fetched by coroutines that   *)
(*                        suspend at the network await.                    *)
(*   src/app.py           _split_by_rate_steps and the calc395 handler.    *)
(*                                                                         *)
(* Dates are proleptic Gregorian ordinals (datetime.date.toordinal), money *)
(* is kept in kopecks as an exact fraction over 365, a schedule is a       *)
(* sequence of <<date, rate>> pairs, an Optional is <<>> or <<value>>.     *)
(***************************************************************************)
EXTENDS Integers, Sequences, FiniteSets, Bags

VARIABLES
    source_url,   \* RatesProvider.source_url: TRUE when a URL is configured
    cache,        \* RatesProvider._cache
    lastFetch,    \* RatesProvider._last_fetch: <<>> (None) or <<t>>
    clock,        \* what datetime.utcnow() returns, in seconds
    inflight,     \* get_steps coroutines suspended in _fetch: the bag of their `now`
    last,         \* the operation the last step performed, and how it ended
    lastRet,      \* schedule the last get_steps returned since the last set_steps
    override,     \* <<>>, or <<S, t>>: the last set_steps installed S at time t
    resp,         \* the last calc395 request with its outcome
    sp            \* an application of _split_by_rate_steps: input and output

provider == <<source_url, cache, lastFetch, clock, inflight, last, lastRet, override>>
vars == <<source_url, cache, lastFetch, clock, inflight, last, lastRet, override, resp, sp>>

----------------------------------------------------------------------------
(* Bounds of the model *)

\* longest schedule, and longest list of source rows, considered
MaxLen == 2
\* last clock value considered
MaxClock == 2
\* the refresh_seconds the provider is constructed with
RefreshSeconds == 1
\* number of get_steps coroutines that may be suspended at once
MaxInflight == 2

Dates == {1, 2}
Rates == {15, 16}

RECURSIVE SeqsUpTo(_, _)
SeqsUpTo(S, n) ==
    IF n = 0 THEN {<<>>}
    ELSE LET shorter == SeqsUpTo(S, n - 1)
         IN  shorter \cup {Append(s, x) : s \in {t \in shorter : Len(t) = n - 1}, x \in S}

Min(a, b) == IF a <= b THEN a ELSE b

----------------------------------------------------------------------------
(* src/rates_loader.py *)

DEFAULT_RATE_STEPS == <<>>

\* list.sort(key=lambda x: x[0]) / sorted(..., key=...): a stable sort by date,
\* written as a stable insertion sort
RECURSIVE InsertByDate(_, _)
InsertByDate(sorted, x) ==
    IF sorted = <<>> THEN <<x>>
    ELSE IF sorted[Len(sorted)][1] <= x[1] THEN Append(sorted, x)
    ELSE Append(InsertByDate(SubSeq(sorted, 1, Len(sorted) - 1), x), sorted[Len(sorted)])

RECURSIVE SortByDate(_)
SortByDate(steps) ==
    IF steps = <<>> THEN <<>>
    ELSE InsertByDate(SortByDate(SubSeq(steps, 1, Len(steps) - 1)), steps[Len(steps)])

\* A source row after cleaning: date_from is None (<<>>) when fromisoformat
\* failed, key_rate is NaN (<<>>) when to_numeric coerced it.
RawRows ==
    {[date_from |-> <<d>>, key_rate |-> <<r>>] : d \in Dates, r \in Rates}
    \cup {[date_from |-> <<>>, key_rate |-> <<15>>], [date_from |-> <<1>>, key_rate |-> <<>>]}

\* df.dropna(subset=["date_from", "key_rate"]) and the list comprehension
RECURSIVE DropNa(_)
DropNa(rows) ==
    IF rows = <<>> THEN <<>>
    ELSE LET rest == DropNa(Tail(rows))
             row  == Head(rows)
         IN  IF row.date_from = <<>> \/ row.key_rate = <<>> THEN rest
             ELSE <<  <<row.date_from[1], row.key_rate[1]>>  >> \o rest

\* what _fetch returns for the rows a configured source delivered
ParseRows(rows) == SortByDate(DropNa(rows))

\* the staleness test of get_steps with > written as >=
NeedsFetchAtWindowEnd(now, prev) ==
    IF prev = <<>> THEN TRUE ELSE now - prev[1] >= RefreshSeconds

\* the condition of get_steps under which it calls _fetch
NeedsFetch(now, prev) ==
    IF prev = <<>> THEN TRUE ELSE now - prev[1] > RefreshSeconds

Event(op, outcome, fetched) == [op |-> op, outcome |-> outcome, fetched |-> fetched]

InitProvider ==
    /\ source_url \in BOOLEAN
    /\ cache = <<>>
    /\ lastFetch = <<>>
    /\ clock = 0
    /\ inflight = EmptyBag
    /\ last = Event("init", "none", FALSE)
    /\ lastRet = <<>>

\* utcnow() moves on between two operations
Advance ==
    /\ clock < MaxClock
    /\ clock' = clock + 1
    /\ last' = Event("tick", "none", FALSE)
    /\ UNCHANGED <<source_url, cache, lastFetch, inflight, lastRet>>

\* get_steps within the refresh window: no await, the cache is returned
GetStepsCached ==
    /\ ~NeedsFetch(clock, lastFetch)
    /\ last' = Event("get_steps", "returned", FALSE)
    /\ lastRet' = <<cache>>
    /\ UNCHANGED <<source_url, cache, lastFetch, clock, inflight>>

\* get_steps with no source configured: _fetch returns DEFAULT_RATE_STEPS
\* without suspending, so the whole call is one step
GetStepsDefault ==
    /\ NeedsFetch(clock, lastFetch)
    /\ ~source_url
    /\ cache' = DEFAULT_RATE_STEPS
    /\ lastFetch' = <<clock>>
    /\ last' = Event("get_steps", "returned", TRUE)
    /\ lastRet' = <<cache'>>
    /\ UNCHANGED <<source_url, clock, inflight>>

\* get_steps with a source configured: now is read, the staleness test passes
\* and the coroutine suspends at `await client.get(...)` inside _fetch
GetStepsAwait ==
    /\ NeedsFetch(clock, lastFetch)
    /\ source_url
    /\ BagCardinality(inflight) < MaxInflight
    /\ inflight' = inflight (+) SetToBag({clock})
    /\ last' = Event("get_steps_await", "none", TRUE)
    /\ UNCHANGED <<source_url, cache, lastFetch, clock, lastRet>>

\* the suspended _fetch resumes with a body that parses: the cache is replaced,
\* the timestamp is the `now` read before the await, the cache is returned
FetchOk(now, rows) ==
    /\ BagIn(now, inflight)
    /\ cache' = ParseRows(rows)
    /\ lastFetch' = <<now>>
    /\ inflight' = inflight (-) SetToBag({now})
    /\ last' = Event("get_steps", "returned", TRUE)
    /\ lastRet' = <<cache'>>
    /\ UNCHANGED <<source_url, clock>>

\* the FetchFail of a provider that stamps the fetch time before it awaits
FetchFailStamped(now) ==
    /\ BagIn(now, inflight)
    /\ lastFetch' = <<now>>
    /\ inflight' = inflight (-) SetToBag({now})
    /\ last' = Event("get_steps", "raised", TRUE)
    /\ UNCHANGED <<source_url, cache, clock, lastRet>>

\* the suspended _fetch raises (transport error, raise_for_status, no parser
\* accepts the body, or the ValueError for missing columns): the assignment
\* `self._cache = await self._fetch()` never happens
FetchFail(now) ==
    /\ BagIn(now, inflight)
    /\ inflight' = inflight (-) SetToBag({now})
    /\ last' = Event("get_steps", "raised", TRUE)
    /\ UNCHANGED <<source_url, cache, lastFetch, clock, lastRet>>

\* set_steps(steps)
SetSteps(steps) ==
    /\ cache' = SortByDate(steps)
    /\ lastFetch' = <<clock>>
    /\ last' = Event("set_steps", "none", FALSE)
    /\ lastRet' = <<>>
    /\ UNCHANGED <<source_url, clock, inflight>>

StepPairs == Dates \X Rates

InitResp ==
    resp = [outcome |-> "none", amount |-> 0, start_date |-> 0, end_date |-> 0,
            end_inclusive |-> FALSE, periods |-> <<>>, total |-> 0]

InitSp == sp = [steps |-> <<>>, start |-> 0, end |-> 0, out |-> <<>>, done |-> FALSE]

----------------------------------------------------------------------------
(* src/app.py *)

\* datetime.date: a date is its proleptic Gregorian ordinal, as date.toordinal
\* computes it, so that date subtraction is integer subtraction
IsLeap(y) == y % 4 = 0 /\ (y % 100 # 0 \/ y % 400 = 0)

DaysInMonth(y, m) ==
    IF m = 2 THEN (IF IsLeap(y) THEN 29 ELSE 28)
    ELSE IF m \in {4, 6, 9, 11} THEN 30 ELSE 31

RECURSIVE DaysBeforeMonth(_, _)
DaysBeforeMonth(y, m) ==
    IF m = 1 THEN 0 ELSE DaysBeforeMonth(y, m - 1) + DaysInMonth(y, m - 1)

DaysBeforeYear(y) ==
    (y - 1) * 365 + ((y - 1) \div 4) - ((y - 1) \div 100) + ((y - 1) \div 400)

Date(y, m, d) == DaysBeforeYear(y) + DaysBeforeMonth(y, m) + d

\* `steps[i][0] <= cur`: the step is in force on day cur
StepApplies(step, cur) == step[1] <= cur

\* the for loop that finds applicable_idx (1-based here): the last index of
\* the leading run of steps that apply at cur, the first index when none does
RECURSIVE ScanApplicable(_, _, _, _)
ScanApplicable(steps, cur, i, applicable_idx) ==
    IF i > Len(steps) THEN applicable_idx
    ELSE IF StepApplies(steps[i], cur) THEN ScanApplicable(steps, cur, i + 1, i)
    ELSE applicable_idx

\* p_end without the min(end, ...)
PEndAtNextChange(end, steps, i) ==
    IF i + 1 <= Len(steps) THEN steps[i + 1][1] ELSE end

\* next_change and p_end of one iteration of the while loop
PEnd(end, steps, i) ==
    IF i + 1 <= Len(steps) THEN Min(end, steps[i + 1][1]) ELSE end

\* the while loop: `while cur < end and i < len(steps)`
RECURSIVE Walk(_, _, _, _, _)
Walk(steps, cur, end, i, out) ==
    IF cur < end /\ i <= Len(steps)
    THEN LET p_end == PEnd(end, steps, i)
         IN  Walk(steps, p_end, end, i + 1, Append(out, <<cur, p_end, steps[i][2]>>))
    ELSE out

\* _split_by_rate_steps walking from the step after the applicable one
SplitFromNextStep(start, end, steps) ==
    IF steps = <<>> THEN <<>>
    ELSE Walk(steps, start, end, ScanApplicable(steps, start, 1, 1) + 1, <<>>)

\* _split_by_rate_steps(start, end, steps): a list of <<p_start, p_end, rate>>
SplitByRateSteps(start, end, steps) ==
    IF steps = <<>> THEN <<>>
    ELSE Walk(steps, start, end, ScanApplicable(steps, start, 1, 1), <<>>)

\* _days_between(a, b): (b - a).days
DaysBetween(a, b) == b - a

\* the denominator of _day_basis, for either day_count label
YearDays == 365

\* amount * (rate / 100.0) * (days / 365.0) roubles, in kopecks, as the exact
\* fraction whole + part / YearDays. amount * rate * days is divided in two
\* halves of amount so that no product leaves 32 bits.
Interest(amount, rate, days) ==
    LET k    == rate * days
        hi   == (amount \div 10000) * k
        lo   == (hi % YearDays) * 10000 + (amount % 10000) * k
    IN  [whole |-> (hi \div YearDays) * 10000 + (lo \div YearDays),
         part  |-> lo % YearDays]

\* total += interest
AddInterest(a, b) ==
    [whole |-> a.whole + b.whole + ((a.part + b.part) \div YearDays),
     part  |-> (a.part + b.part) % YearDays]

\* round(x, 2): the nearest kopeck, a tie going to the even one. With whole
\* roubles and whole percents over 365 no value lies on a tie, and the float
\* the code rounds is nearer to the exact value than to any tie.
Round2(x) ==
    IF 2 * x.part < YearDays THEN x.whole
    ELSE IF 2 * x.part > YearDays THEN x.whole + 1
    ELSE IF x.whole % 2 = 0 THEN x.whole ELSE x.whole + 1

Zero == [whole |-> 0, part |-> 0]

\* the period of one piece, or <<>> for a piece that `continue` skips
PeriodItem(amount, piece) ==
    LET days == DaysBetween(piece[1], piece[2])
    IN  IF days <= 0 THEN <<>>
        ELSE << [start |-> piece[1], end |-> piece[2], rate |-> piece[3], days |-> days,
                 interest |-> Round2(Interest(amount, piece[3], days))] >>

RECURSIVE Periods(_, _)
Periods(amount, pieces) ==
    IF pieces = <<>> THEN <<>>
    ELSE PeriodItem(amount, Head(pieces)) \o Periods(amount, Tail(pieces))

\* the running `total` of the loop: the unrounded interests added up
RECURSIVE RawTotal(_, _)
RawTotal(amount, pieces) ==
    IF pieces = <<>> THEN Zero
    ELSE LET days == DaysBetween(Head(pieces)[1], Head(pieces)[2])
             rest == RawTotal(amount, Tail(pieces))
         IN  IF days <= 0 THEN rest
             ELSE AddInterest(Interest(amount, Head(pieces)[3], days), rest)

\* the pieces calc395 iterates over: the split, or the whole range at the
\* earliest rate when the split is empty and the first step starts later
Pieces(start_date, end_date, steps) ==
    LET pieces == SplitByRateSteps(start_date, end_date, steps)
    IN  IF pieces = <<>> /\ steps # <<>> /\ steps[1][1] > start_date
        THEN << <<start_date, end_date, steps[1][2]>> >>
        ELSE pieces

\* `if end_inclusive: end_date = end_date + relativedelta(days=1)`
ShiftedEnd(end_date, end_inclusive) == IF end_inclusive THEN end_date + 1 ELSE end_date

\* the early-return test with < for <=
EmptyRangeStrict(start_date, end) == end < start_date

\* `if end_date <= start_date`
EmptyRange(start_date, end) == end <= start_date

Request(amount, start_date, end_date, end_inclusive) ==
    [amount |-> amount, start_date |-> start_date, end_date |-> end_date,
     end_inclusive |-> end_inclusive]

Outcome(req, outcome, periods, total) ==
    [outcome |-> outcome, amount |-> req.amount, start_date |-> req.start_date,
     end_date |-> req.end_date, end_inclusive |-> req.end_inclusive,
     periods |-> periods, total |-> total]

\* calc395 from the schedule get_steps returned to the response or the raise
Answer(req, steps) ==
    LET end    == ShiftedEnd(req.end_date, req.end_inclusive)
        pieces == Pieces(req.start_date, end, steps)
    IN  IF steps = <<>> THEN Outcome(req, "error", <<>>, 0)
        ELSE Outcome(req, "response", Periods(req.amount, pieces),
                     Round2(RawTotal(req.amount, pieces)))

\* calc395 on an empty range: the empty response, get_steps is not called
CalcEmpty(req) ==
    /\ EmptyRange(req.start_date, ShiftedEnd(req.end_date, req.end_inclusive))
    /\ resp' = Outcome(req, "response", <<>>, 0)
    /\ last' = Event("calc395", "none", FALSE)
    /\ UNCHANGED <<source_url, cache, lastFetch, clock, inflight, lastRet>>

\* calc395 on a non-empty range with no source configured: get_steps does not
\* suspend, so the handler runs to its end in one step
CalcServe(req) ==
    /\ ~EmptyRange(req.start_date, ShiftedEnd(req.end_date, req.end_inclusive))
    /\ ~source_url
    /\ \/ GetStepsCached
       \/ GetStepsDefault
    /\ resp' = Answer(req, lastRet'[1])

----------------------------------------------------------------------------
(* The provider under concurrent GET /rates handlers and set_steps *)

Init == InitProvider /\ override = <<>> /\ InitResp /\ InitSp

Tick == Advance /\ UNCHANGED <<override, resp, sp>>

\* GET /rates: `steps = await rates.get_steps()`, in its three courses
RatesCached == GetStepsCached /\ UNCHANGED <<override, resp, sp>>

RatesDefault == GetStepsDefault /\ UNCHANGED <<override, resp, sp>>

RatesAwait == GetStepsAwait /\ UNCHANGED <<override, resp, sp>>

RatesResume == \E now \in 0..MaxClock : \E rows \in SeqsUpTo(RawRows, MaxLen) :
    FetchOk(now, rows) /\ UNCHANGED <<override, resp, sp>>

RatesRaise == \E now \in 0..MaxClock : FetchFail(now) /\ UNCHANGED <<override, resp, sp>>

Install == \E steps \in SeqsUpTo(StepPairs, MaxLen) :
    SetSteps(steps) /\ UNCHANGED <<override, resp, sp>>

Next ==
    \/ Tick
    \/ RatesCached
    \/ RatesDefault
    \/ RatesAwait
    \/ RatesResume
    \/ RatesRaise
    \/ Install

Spec == Init /\ [][Next]_vars

----------------------------------------------------------------------------
(* The same provider, with the last set_steps call on record *)

InstallNoted == \E steps \in SeqsUpTo(StepPairs, MaxLen) :
    SetSteps(steps) /\ override' = <<cache', clock>> /\ UNCHANGED <<resp, sp>>

NextRace ==
    \/ Tick
    \/ RatesCached
    \/ RatesAwait
    \/ RatesResume
    \/ RatesRaise
    \/ InstallNoted

InitRace == Init /\ source_url

SpecRace == InitRace /\ [][NextRace]_vars

----------------------------------------------------------------------------
(* calc395 over a provider without a source, loaded through set_steps *)

Mar01 == Date(2024, 3, 1)
Jul26 == Date(2024, 7, 26)
Sep01 == Date(2024, 9, 1)

CalcStepPairs == {Mar01, Jul26} \X Rates
StartDates == {Date(2024, 1, 1), Mar01, Jul26}
EndDates == {Mar01, Jul26, Date(2024, 8, 31), Sep01}
Amounts == {10000000, 1000}

Requests == {Request(a, s, e, i) : a \in Amounts, s \in StartDates, e \in EndDates, i \in BOOLEAN}

InitCalc == Init /\ ~source_url

Preload == \E steps \in SeqsUpTo(CalcStepPairs, MaxLen) :
    SetSteps(steps) /\ UNCHANGED <<override, resp, sp>>

CalcReturnsEmpty == \E req \in Requests : CalcEmpty(req) /\ UNCHANGED <<override, sp>>

Calc395 == \E req \in Requests : CalcServe(req) /\ UNCHANGED <<override, sp>>

NextCalc ==
    \/ Preload
    \/ CalcReturnsEmpty
    \/ Calc395

SpecCalc == InitCalc /\ [][NextCalc]_vars

----------------------------------------------------------------------------
(* _split_by_rate_steps applied to one input *)

SplitDays == 1..4
SplitPairs == {1, 2, 3} \X Rates

InitSplit ==
    /\ InitProvider /\ override = <<>> /\ InitResp
    /\ sp \in [steps : SeqsUpTo(SplitPairs, MaxLen), start : SplitDays, end : SplitDays,
               out : {<<>>}, done : {FALSE}]

Split ==
    /\ ~sp.done
    /\ sp' = [sp EXCEPT !.out = SplitByRateSteps(sp.start, sp.end, sp.steps), !.done = TRUE]
    /\ UNCHANGED <<provider, resp>>

NextSplit == Split

SpecSplit == InitSplit /\ [][NextSplit]_vars

----------------------------------------------------------------------------
(* Properties of _split_by_rate_steps, under SpecSplit *)

\* sorted ascending by date with no date twice
SortedUnique(steps) == \A i \in 1..(Len(steps) - 1) : steps[i][1] < steps[i + 1][1]

\* the rate of the step with the greatest effective date <= d
RateInForce(steps, d) ==
    LET i == CHOOSE k \in 1..Len(steps) :
                 /\ steps[k][1] <= d
                 /\ \A j \in 1..Len(steps) : steps[j][1] <= d => steps[j][1] <= steps[k][1]
    IN  steps[i][2]

\* the input the two claims are about: a sorted schedule without repeated
\* dates, at least one step, a < b, a on or after the first step's date
SplitCase ==
    /\ sp.done
    /\ sp.steps # <<>>
    /\ SortedUnique(sp.steps)
    /\ sp.start < sp.end
    /\ sp.steps[1][1] <= sp.start

\* C1: on such an input the segments returned are a non-empty list that starts
\* at a, ends at b, is sorted by start, has every segment's end equal to the
\* next segment's start, and has no empty segment (so no two overlap).
C1_SegmentsCoverRange ==
    SplitCase =>
        /\ sp.out # <<>>
        /\ sp.out[1][1] = sp.start
        /\ sp.out[Len(sp.out)][2] = sp.end
        /\ \A i \in 1..Len(sp.out) : sp.out[i][1] < sp.out[i][2]
        /\ \A i \in 1..(Len(sp.out) - 1) :
               /\ sp.out[i][2] = sp.out[i + 1][1]
               /\ sp.out[i][1] <= sp.out[i + 1][1]

\* a range that crosses a rate change and is cut there
C1_Witness == SplitCase /\ Len(sp.out) >= 2 /\ sp.out[1][2] < sp.end

\* C2: on such an input every segment carries, on each of its days, the rate of
\* the step with the greatest effective date on or before that day.
C2_SegmentRateInForce ==
    SplitCase =>
        \A i \in 1..Len(sp.out) :
            \A d \in sp.out[i][1]..(sp.out[i][2] - 1) :
                sp.out[i][3] = RateInForce(sp.steps, d)

\* two segments at two different rates, the range starting after the first step
C2_Witness ==
    /\ SplitCase
    /\ Len(sp.out) >= 2
    /\ sp.out[1][3] # sp.out[2][3]
    /\ sp.steps[1][1] < sp.start

----------------------------------------------------------------------------
(* Properties of calc395, under SpecCalc *)

\* the last step was a calc395 call that went through get_steps, so the
\* schedule it used is the cache as it stands
Served == last.op = "get_steps" /\ resp.outcome # "none"

RECURSIVE SumOfInterest(_)
SumOfInterest(periods) ==
    IF periods = <<>> THEN 0 ELSE Head(periods).interest + SumOfInterest(Tail(periods))

\* C3: the total of a response is the sum of its periods' interests, each
\* already rounded to the kopeck (that sum needs no further rounding). Stated
\* for the schedules that are sorted with no date twice.
C3_TotalIsSumOfRounded ==
    (Served /\ resp.outcome = "response" /\ SortedUnique(cache)) =>
        resp.total = SumOfInterest(resp.periods)

\* C4: a request that starts before the earliest step gets one period, the
\* whole requested range at the earliest step's rate. Stated for the schedules
\* that are sorted with no date twice.
C4_EarliestRateForWholeRange ==
    (/\ Served /\ resp.outcome = "response"
     /\ cache # <<>> /\ SortedUnique(cache) /\ resp.start_date < cache[1][1]) =>
        /\ Len(resp.periods) = 1
        /\ resp.periods[1].start = resp.start_date
        /\ resp.periods[1].end = ShiftedEnd(resp.end_date, resp.end_inclusive)
        /\ resp.periods[1].rate = cache[1][2]

IsEmptyResult == resp.outcome = "response" /\ resp.periods = <<>> /\ resp.total = 0

\* C7: calc395 gives the empty result exactly when the (shifted) end is not
\* after the start, and then as a response whatever the schedule; a non-empty
\* range over an empty schedule ends in an error.
C7_EmptyRangeVersusNoData ==
    resp.outcome # "none" =>
        LET end == ShiftedEnd(resp.end_date, resp.end_inclusive)
        IN  /\ end <= resp.start_date => IsEmptyResult
            /\ end > resp.start_date => ~IsEmptyResult
            /\ (end > resp.start_date /\ Served /\ cache = <<>>) => resp.outcome = "error"
            /\ resp.outcome = "error" => (end > resp.start_date /\ last.op # "calc395")

\* the empty response was given while the provider had never fetched and
\* held no schedule: a request with a non-empty range would have raised
C7_Witness ==
    /\ last.op = "calc395"
    /\ IsEmptyResult
    /\ resp.end_date = resp.start_date
    /\ cache = <<>>
    /\ lastFetch = <<>>

C9_Case ==
    /\ Served
    /\ cache = << <<Mar01, 16>>, <<Jul26, 15>> >>
    /\ resp.amount = 10000000
    /\ resp.start_date = Mar01
    /\ resp.end_date = Sep01
    /\ ~resp.end_inclusive

\* C9: in the scenario the response is two periods, 147 days at 16 with
\* interest 644657.53 and 37 days at 15 with interest 152054.79, and the total
\* is their sum, 796712.32.
C9_AsStated ==
    C9_Case =>
        /\ resp.outcome = "response"
        /\ resp.periods =
             << [start |-> Mar01, end |-> Jul26, rate |-> 16, days |-> 147, interest |-> 64465753],
                [start |-> Jul26, end |-> Sep01, rate |-> 15, days |-> 37, interest |-> 15205479] >>
        /\ resp.total = 79671232

----------------------------------------------------------------------------
(* Properties of RatesProvider, under Spec and SpecRace *)

\* this step is a get_steps call from its first line (not the resumption of a
\* suspended one)
CallStarts ==
    \/ last'.op = "get_steps_await"
    \/ last'.op = "get_steps" /\ inflight' = inflight

\* this step is the resumption of the suspended call that read `now`
Resumes(now) == BagIn(now, inflight) /\ inflight' = inflight (-) SetToBag({now})

\* C5: a get_steps call whose fetch fails raises and leaves the cache and the
\* timestamp as they were, so a timestamp that was stale for the failed call is
\* stale for the next call; the timestamp changes only in a set_steps call or
\* in a get_steps call whose fetch succeeded.
C5_FailedFetchKeepsState ==
    [][ /\ (last'.op = "get_steps" /\ last'.outcome = "raised") =>
               /\ last'.fetched
               /\ cache' = cache
               /\ lastFetch' = lastFetch
               /\ \A now \in 0..MaxClock :
                      (Resumes(now) /\ (lastFetch = <<>> \/ now - lastFetch[1] > RefreshSeconds))
                          => (lastFetch' = <<>> \/ clock' - lastFetch'[1] > RefreshSeconds)
        /\ lastFetch' # lastFetch =>
               \/ last'.op = "set_steps"
               \/ last' = Event("get_steps", "returned", TRUE)
      ]_vars

\* a fetch has failed after an earlier one succeeded: the provider still holds
\* the earlier schedule and its timestamp
C5_Witness ==
    /\ last.op = "get_steps"
    /\ last.outcome = "raised"
    /\ cache # <<>>
    /\ lastFetch # <<>>
    /\ lastRet = <<cache>>

\* C6: the schedule the provider holds, and the one get_steps returned, is
\* sorted ascending by date and has no date twice.
C6_ScheduleSortedUnique ==
    /\ SortedUnique(cache)
    /\ lastRet # <<>> => SortedUnique(lastRet[1])

\* the call starts no more than refresh_seconds after the recorded fetch time
WithinWindow == lastFetch # <<>> /\ clock - lastFetch[1] <= RefreshSeconds

\* C8: a get_steps call that starts within the window returns the cached
\* schedule, the one the last successful get_steps returned when there was one
\* since the last set_steps, and fetches nothing; a call that starts outside
\* the window, or before any fetch was recorded, calls _fetch.
C8_CachedWithinWindow ==
    [][ CallStarts =>
            IF WithinWindow
            THEN /\ last' = Event("get_steps", "returned", FALSE)
                 /\ lastRet' = <<cache>>
                 /\ lastRet # <<>> => lastRet' = lastRet
                 /\ UNCHANGED <<cache, lastFetch, inflight>>
            ELSE last'.fetched
      ]_vars

\* with no source configured, a call at the last instant of the window was
\* served from the cache the first call recorded
C8_Witness ==
    /\ ~source_url
    /\ last = Event("get_steps", "returned", FALSE)
    /\ lastRet = <<DEFAULT_RATE_STEPS>>
    /\ lastFetch # <<>>
    /\ clock - lastFetch[1] = RefreshSeconds

\* C10: a get_steps call that starts within refresh_seconds of the last
\* set_steps(S) returns S, sorted, and fetches nothing.
C10_OverrideServedInWindow ==
    [][ (CallStarts /\ override # <<>> /\ clock - override[2] <= RefreshSeconds) =>
            /\ last' = Event("get_steps", "returned", FALSE)
            /\ lastRet' = <<override[1]>>
      ]_vars

====
